---- MODULE Spec2Model ----
(***************************************************************************)
(* State-machine model of the MROJ online judge request handlers           *)
(* (src/src/handler/jobs.rs) and of the user store (src/src/users/mod.rs). *)
(*                                                                         *)
(* Every `pool.lock().await` / `ids.lock().await` in the source is one     *)
(* critical section; a handler is a sequence of such sections, and a       *)
(* request task (a member of Procs) can be preempted between any two of    *)
(* them.  Each step below is one critical section of the source.           *)
(***************************************************************************)
EXTENDS Integers, Sequences, FiniteSets, TLC

\* ------------------------------------------------------------------ bounds
NumProcs == 2        \* request tasks that may be in flight at once
MaxUsers == 2        \* create_user calls are started while usersid < MaxUsers

MaxLimit == 2        \* largest submission_limit a contest is given
MaxTime == 3         \* the clock reads 0 .. MaxTime seconds past the epoch below
MaxRejudges == 1     \* rejudges are started while fewer than this were dispatched
MaxContests == 2     \* contests are created while contestsid <= MaxContests

Procs == 1 .. NumProcs
Names == {"a", "b"}

\* post_job requests are started while jobsid < MaxJobs.
MaxJobs == MaxLimit + 1

\* config.languages and config.problems (the catalogs), and what requests name.
Languages == {"Rust"}
Problems == {1, 2}
ReqLanguages == {"Rust", "Cobol"}
ReqProblems == {1, 2, 3}
ReqUsers == {0, 1, 2}
ReqContests == {0, 1, 2}

\* --------------------------------------------------------- error taxonomy
OK == "Ok"
NOT_FOUND == "NotFound"
INVALID_ARGUMENT == "InvalidArgument"
RATE_LIMIT == "RateLimit"
EXTERNAL == "External"

VARIABLES
    users,      \* table users: set of rows [id, name]
    usersid,    \* Ids.usersid
    contests,   \* table contests: contest id -> Contest
    contestsid, \* Ids.contestsid
    jobs,       \* table submission: job id -> Job
    jobsid,     \* Ids.jobsid
    execs,      \* executions spawned (tokio::spawn of runner::run) and not finished
    nexec,      \* number of executions spawned so far (tags them)
    pc,         \* pc[p]: position of request task p inside its handler
    loc,        \* loc[p]: the handler's local variables
    resp,       \* resp[p]: the response task p is about to send ([kind, msg])
    issued,     \* history: the user ids read by create_user calls so far
    burned      \* history: the user ids of create_user calls that failed

store == <<users, usersid, contests, contestsid, jobs, jobsid, execs, nexec>>
userStore == <<users, usersid>>
jobStore == <<contests, contestsid, jobs, jobsid, execs, nexec>>
hist == <<issued, burned>>
vars == <<users, usersid, contests, contestsid, jobs, jobsid, execs, nexec,
          pc, loc, resp, issued, burned>>

NoResp == [kind |-> "none", msg |-> "none", id |-> 0, name |-> "none"]
NoContest == [from |-> <<>>, to |-> <<>>, problem_ids |-> {}, user_ids |-> {},
              submission_limit |-> 0]
\* The locals of a users handler; failed tells that a store statement of the
\* request failed (it is kept until the response is sent).
NoLoc == [name |-> "none", id |-> 0, failed |-> FALSE]

\* An error_log::<KIND>::webmsg(..) response, or a 200 with a body: msg names
\* the message (or body) and id, name the values formatted into it.
Response(kind, msg, id, name) == [kind |-> kind, msg |-> msg, id |-> id, name |-> name]

\* The handler is over: its locals are dropped, its response is ready.
Finish(p, r) ==
    /\ pc' = [pc EXCEPT ![p] = "done"]
    /\ loc' = [loc EXCEPT ![p] = NoLoc]
    /\ resp' = [resp EXCEPT ![p] = r]

\* The handler is over after a store statement of its request failed.
Fail(p, r) ==
    /\ pc' = [pc EXCEPT ![p] = "done"]
    /\ loc' = [loc EXCEPT ![p] = [NoLoc EXCEPT !.failed = TRUE]]
    /\ resp' = [resp EXCEPT ![p] = r]

\* The same, with the locals kept for inspection until the task returns.
Reply(p, r) ==
    /\ pc' = [pc EXCEPT ![p] = "done"]
    /\ resp' = [resp EXCEPT ![p] = r]

\* SELECT * FROM users WHERE name = :name  (stmt.exists)
NameExists(name) == \E u \in users : u.name = name

\* SELECT * FROM users WHERE id = :id
RowsWithId(id) == {u \in users : u.id = id}

\* The task sends resp[p] and becomes free for the next request.
Return(p) ==
    /\ pc[p] = "done"
    /\ pc' = [pc EXCEPT ![p] = "idle"]
    /\ loc' = [loc EXCEPT ![p] = NoLoc]
    /\ resp' = [resp EXCEPT ![p] = NoResp]
    /\ UNCHANGED <<store, hist>>

\* ------------------------------------------------------------ create_user
\* users/mod.rs:99   let user_id: u32 = ids.lock().await.usersid;
cu_read(p, name) ==
    /\ pc[p] = "idle"
    /\ usersid < MaxUsers
    /\ pc' = [pc EXCEPT ![p] = "cu_incr"]
    /\ loc' = [loc EXCEPT ![p] = [NoLoc EXCEPT !.name = name, !.id = usersid]]
    /\ issued' = issued \cup {usersid}
    /\ UNCHANGED <<users, usersid, jobStore, resp, burned>>

\* users/mod.rs:100  ids.lock().await.usersid += 1;
cu_incr(p) ==
    /\ pc[p] = "cu_incr"
    /\ usersid' = usersid + 1
    /\ pc' = [pc EXCEPT ![p] = "cu_exists"]
    /\ UNCHANGED <<users, jobStore, loc, resp, hist>>

\* users/mod.rs:66-74  user_exists: a failed prepare answers true.
user_exists(ok, name) == IF ok THEN NameExists(name) ELSE TRUE

\* users/mod.rs:103-105
cu_exists(p) ==
    /\ pc[p] = "cu_exists"
    /\ \E ok \in BOOLEAN :
         IF user_exists(ok, loc[p].name)
         THEN /\ LET r == Response(INVALID_ARGUMENT, "User name already exists.",
                                   0, loc[p].name)
                 IN  IF ok THEN Finish(p, r) ELSE Fail(p, r)
              /\ burned' = burned \cup {loc[p].id}
         ELSE /\ pc' = [pc EXCEPT ![p] = "cu_insert"]
              /\ UNCHANGED <<loc, resp, burned>>
    /\ UNCHANGED <<userStore, jobStore, issued>>

\* A create_user that gives its id back when the insert fails.
cu_insert_rollback(p) ==
    /\ pc[p] = "cu_insert"
    /\ \E ok \in BOOLEAN :
         IF ok
         THEN /\ users' = users \cup {[id |-> loc[p].id, name |-> loc[p].name]}
              /\ Finish(p, Response(OK, "user", loc[p].id, loc[p].name))
              /\ UNCHANGED <<usersid, burned>>
         ELSE /\ Fail(p, Response(EXTERNAL, "Database Error.", 0, "none"))
              /\ burned' = burned \cup {loc[p].id}
              /\ usersid' = usersid - 1
              /\ UNCHANGED users
    /\ UNCHANGED <<jobStore, issued>>

\* users/mod.rs:106-112  INSERT INTO users (id, name); the statement may fail.
cu_insert(p) ==
    /\ pc[p] = "cu_insert"
    /\ \E ok \in BOOLEAN :
         IF ok
         THEN /\ users' = users \cup {[id |-> loc[p].id, name |-> loc[p].name]}
              /\ Finish(p, Response(OK, "user", loc[p].id, loc[p].name))
              /\ UNCHANGED burned
         ELSE /\ Fail(p, Response(EXTERNAL, "Database Error.", 0, "none"))
              /\ burned' = burned \cup {loc[p].id}
              /\ UNCHANGED users
    /\ UNCHANGED <<usersid, jobStore, issued>>

create_user(p) ==
    \/ \E name \in Names : cu_read(p, name)
    \/ cu_incr(p)
    \/ cu_exists(p)
    \/ cu_insert(p)

\* ------------------------------------------------------------ update_user
\* users/mod.rs:44-64  get_user: a failed prepare is an External error, a
\* missing row NotFound; otherwise the first row the query yields.
get_user(ok, id) ==
    IF ~ok THEN {[err |-> EXTERNAL, name |-> "none"]}
    ELSE IF RowsWithId(id) = {} THEN {[err |-> NOT_FOUND, name |-> "none"]}
    ELSE {[err |-> OK, name |-> u.name] : u \in RowsWithId(id)}

\* users/mod.rs:79-83, 92-93
uu_get(p, id, name) ==
    /\ pc[p] = "idle"
    /\ \E ok \in BOOLEAN : \E r \in get_user(ok, id) :
         IF r.err = EXTERNAL
         THEN Fail(p, Response(EXTERNAL, "Database Error.", 0, "none"))
         ELSE IF r.err = NOT_FOUND
         THEN Finish(p, Response(NOT_FOUND, "User not found.", id, "none"))
         ELSE IF name = r.name
         THEN Finish(p, Response(OK, "user", id, name))
         ELSE /\ pc' = [pc EXCEPT ![p] = "uu_exists"]
              /\ loc' = [loc EXCEPT ![p] = [NoLoc EXCEPT !.name = name, !.id = id]]
              /\ UNCHANGED resp
    /\ UNCHANGED <<store, hist>>

\* An update that never looks whether the name is taken.
uu_exists_unchecked(p) ==
    /\ pc[p] = "uu_exists"
    /\ pc' = [pc EXCEPT ![p] = "uu_update"]
    /\ UNCHANGED <<store, loc, resp, hist>>

\* users/mod.rs:84-86
uu_exists(p) ==
    /\ pc[p] = "uu_exists"
    /\ \E ok \in BOOLEAN :
         IF user_exists(ok, loc[p].name)
         THEN LET r == Response(INVALID_ARGUMENT, "User name already exists.",
                                0, loc[p].name)
              IN  IF ok THEN Finish(p, r) ELSE Fail(p, r)
         ELSE /\ pc' = [pc EXCEPT ![p] = "uu_update"]
              /\ UNCHANGED <<loc, resp>>
    /\ UNCHANGED <<store, hist>>

\* UPDATE users SET name = ?1 WHERE id = ?2
RenameRows(id, name) ==
    {u \in users : u.id # id} \cup {[id |-> id, name |-> name] : u \in RowsWithId(id)}

\* users/mod.rs:87-93  the result of execute is dropped (let _ = ...).
uu_update(p) ==
    /\ pc[p] = "uu_update"
    /\ \E ok \in BOOLEAN :
         IF ok
         THEN /\ users' = RenameRows(loc[p].id, loc[p].name)
              /\ Finish(p, Response(OK, "user", loc[p].id, loc[p].name))
         ELSE /\ users' = users
              /\ Fail(p, Response(OK, "user", loc[p].id, loc[p].name))
    /\ UNCHANGED <<usersid, jobStore, hist>>

update_user(p) ==
    \/ \E id \in 0 .. MaxUsers - 1, name \in Names : uu_get(p, id, name)
    \/ uu_exists(p)
    \/ uu_update(p)

\* handler/jobs.rs:278-292  POST /users: id present renames, id absent creates.
post_user(p) == update_user(p) \/ create_user(p)

\* ------------------------------------------------------------- timestamps
\* Timestamps are strings; a string is the sequence of its bytes, so that the
\* code's comparisons (String's <, >, byte-wise) are modelled as they are.
Digit2(n) == <<48 + (n \div 10), 48 + (n % 10)>>

\* handler/jobs.rs:168  Utc::now().format("%Y-%m-%dT%H:%M:%S%.3fZ") when the
\* clock reads t seconds past 2022-01-01T00:00:00.000Z (t < 3600).
FormatTime(t) ==
    <<50, 48, 50, 50, 45, 48, 49, 45, 48, 49, 84, 48, 48, 58>>
    \o Digit2(t \div 60) \o <<58>> \o Digit2(t % 60) \o <<46, 48, 48, 48, 90>>

\* handler/jobs.rs:169, 172  a < b on Strings: lexicographic on bytes, a proper
\* prefix being smaller.
StrLess(a, b) ==
    \E i \in 1 .. Len(b) :
        /\ i <= Len(a) + 1
        /\ \A j \in 1 .. (i - 1) : a[j] = b[j]
        /\ IF i = Len(a) + 1 THEN TRUE ELSE a[i] < b[i]

\* --------------------------------------------------------------- post_job
Pass == NoResp

Request == [language : ReqLanguages, user_id : ReqUsers,
            contest_id : ReqContests, problem_id : ReqProblems]

JobLoc(r) == [req |-> r, contest |-> NoContest, time |-> 0, failed |-> FALSE]

\* handler/jobs.rs:96-104 then 105-116: the two catalog checks.
CatalogOk(r) == r.language \in Languages /\ r.problem_id \in Problems

\* The user check before the language check.
check_request_user_first(ok, r) ==
    IF ~ok \/ RowsWithId(r.user_id) = {}
    THEN Response(NOT_FOUND, "User not found.", r.user_id, "none")
    ELSE IF r.language \notin Languages
    THEN Response(NOT_FOUND, "Language no found.", 0, r.language)
    ELSE IF r.problem_id \notin Problems
    THEN Response(NOT_FOUND, "Problem not found.", r.problem_id, "none")
    ELSE Pass

\* handler/jobs.rs:96-119  language, problem, then user (any Err of get_user,
\* a failed statement included, is answered NotFound).
check_request(ok, r) ==
    IF r.language \notin Languages
    THEN Response(NOT_FOUND, "Language no found.", 0, r.language)
    ELSE IF r.problem_id \notin Problems
    THEN Response(NOT_FOUND, "Problem not found.", r.problem_id, "none")
    ELSE IF \A u \in get_user(ok, r.user_id) : u.err # OK
    THEN Response(NOT_FOUND, "User not found.", r.user_id, "none")
    ELSE Pass

\* A handler that takes the job id before it checks the request.
pj_check_allocating(p, r) ==
    /\ pc[p] = "idle"
    /\ jobsid < MaxJobs
    /\ \E ok \in (IF CatalogOk(r) THEN BOOLEAN ELSE {TRUE}) :
         /\ loc' = [loc EXCEPT ![p] = [JobLoc(r) EXCEPT !.failed = ~ok]]
         /\ IF check_request(ok, r) # Pass
            THEN Reply(p, check_request(ok, r))
            ELSE /\ pc' = [pc EXCEPT ![p] = "pj_contest_exists"]
                 /\ UNCHANGED resp
    /\ jobsid' = jobsid + 1
    /\ UNCHANGED <<userStore, contests, contestsid, jobs, execs, nexec, hist>>

pj_check(p, r) ==
    /\ pc[p] = "idle"
    /\ jobsid < MaxJobs
    /\ \E ok \in (IF CatalogOk(r) THEN BOOLEAN ELSE {TRUE}) :
         /\ loc' = [loc EXCEPT ![p] = [JobLoc(r) EXCEPT !.failed = ~ok]]
         /\ IF check_request(ok, r) # Pass
            THEN Reply(p, check_request(ok, r))
            ELSE /\ pc' = [pc EXCEPT ![p] = "pj_contest_exists"]
                 /\ UNCHANGED resp
    /\ UNCHANGED <<store, hist>>

\* A contest check that forgets practice mode.
contest_missing_no_practice(r) == r.contest_id \notin DOMAIN contests

\* handler/jobs.rs:120  contest_id != 0 && !contest_exists(contest_id)
contest_missing(r) == r.contest_id # 0 /\ r.contest_id \notin DOMAIN contests

\* handler/jobs.rs:120-126  (the message is formatted with body.user_id)
pj_contest_exists(p) ==
    /\ pc[p] = "pj_contest_exists"
    /\ IF contest_missing(loc[p].req)
       THEN Reply(p, Response(NOT_FOUND, "Contest not found.", loc[p].req.user_id, "none"))
       ELSE /\ pc' = [pc EXCEPT ![p] =
                        IF loc[p].req.contest_id # 0 THEN "pj_get_contest" ELSE "pj_start"]
            /\ UNCHANGED resp
    /\ UNCHANGED <<store, loc, hist>>

\* handler/jobs.rs:130-141  membership of the user, then of the problem.
check_contest(r, c) ==
    IF r.user_id \notin c.user_ids
    THEN Response(INVALID_ARGUMENT, "User is not registered in contest.", r.user_id, "none")
    ELSE IF r.problem_id \notin c.problem_ids
    THEN Response(INVALID_ARGUMENT, "Problem is not in contest.", r.problem_id, "none")
    ELSE Pass

\* handler/jobs.rs:127-141  get_contest(..).unwrap() and the membership checks.
pj_get_contest(p) ==
    /\ pc[p] = "pj_get_contest"
    /\ LET c == contests[loc[p].req.contest_id] IN
         /\ loc' = [loc EXCEPT ![p].contest = c]
         /\ IF check_contest(loc[p].req, c) # Pass
            THEN Reply(p, check_contest(loc[p].req, c))
            ELSE /\ pc' = [pc EXCEPT ![p] = "pj_limit"]
                 /\ UNCHANGED resp
    /\ UNCHANGED <<store, hist>>

\* SELECT COUNT(*) FROM submission WHERE user_id = .. AND problem_id = ..
\* AND contest_id = ..
submission_count(r) ==
    Cardinality({j \in DOMAIN jobs : /\ jobs[j].user_id = r.user_id
                                     /\ jobs[j].problem_id = r.problem_id
                                     /\ jobs[j].contest_id = r.contest_id})

\* A window check that shuts the contest at its bounds.
check_window_exclusive(c, time) ==
    IF ~StrLess(c.from, time)
    THEN Response(INVALID_ARGUMENT, "The contest has not started yet.", 0, "none")
    ELSE IF ~StrLess(time, c.to)
    THEN Response(INVALID_ARGUMENT, "The contest has already finished.", 0, "none")
    ELSE Pass

\* handler/jobs.rs:168-174  the window check on the formatted current time.
check_window(c, time) ==
    IF StrLess(time, c.from)
    THEN Response(INVALID_ARGUMENT, "The contest has not started yet.", 0, "none")
    ELSE IF StrLess(c.to, time)
    THEN Response(INVALID_ARGUMENT, "The contest has already finished.", 0, "none")
    ELSE Pass

\* A limit check that admits one submission too many.
check_limit_off_by_one(ok, c, count, time) ==
    IF c.submission_limit # 0
    THEN IF ~ok THEN Response(EXTERNAL, "Database Error.", 0, "none")
         ELSE IF count > c.submission_limit
         THEN Response(RATE_LIMIT, "Too many submissions.", 0, "none")
         ELSE check_window(c, time)
    ELSE Pass

\* A window check made whatever the submission limit is.
check_limit_window_always(ok, c, count, time) ==
    IF c.submission_limit # 0 /\ ~ok THEN Response(EXTERNAL, "Database Error.", 0, "none")
    ELSE IF c.submission_limit # 0 /\ count >= c.submission_limit
    THEN Response(RATE_LIMIT, "Too many submissions.", 0, "none")
    ELSE check_window(c, time)

\* handler/jobs.rs:142-175  only a contest with a nonzero submission_limit
\* has its submissions counted and its window compared with the current time.
check_limit(ok, c, count, time) ==
    IF c.submission_limit # 0
    THEN IF ~ok THEN Response(EXTERNAL, "Database Error.", 0, "none")
         ELSE IF count >= c.submission_limit
         THEN Response(RATE_LIMIT, "Too many submissions.", 0, "none")
         ELSE check_window(c, time)
    ELSE Pass

\* handler/jobs.rs:142-176  loc[p].time records what the clock reads now,
\* whether or not the handler looks at it.
pj_limit(p) ==
    /\ pc[p] = "pj_limit"
    /\ \E t \in 0 .. MaxTime :
       \E ok \in (IF loc[p].contest.submission_limit # 0 THEN BOOLEAN ELSE {TRUE}) :
         LET e == check_limit(ok, loc[p].contest, submission_count(loc[p].req),
                              FormatTime(t)) IN
         /\ loc' = [loc EXCEPT ![p].time = t, ![p].failed = ~ok]
         /\ IF e # Pass
            THEN Reply(p, e)
            ELSE /\ pc' = [pc EXCEPT ![p] = "pj_start"]
                 /\ UNCHANGED resp
    /\ UNCHANGED <<store, hist>>

NewJob(r) == [user_id |-> r.user_id, problem_id |-> r.problem_id,
              contest_id |-> r.contest_id, language |-> r.language,
              state |-> "Queued", result |-> 0]

NewExec(j, origin) == [job |-> j, tag |-> nexec + 1, origin |-> origin, phase |-> "spawned"]

\* handler/jobs.rs:178  runner::start: the job gets the next job id, is
\* stored Queued, and its execution is spawned; the snapshot is the response.
pj_start(p) ==
    /\ pc[p] = "pj_start"
    /\ jobs' = jobs @@ (jobsid :> NewJob(loc[p].req))
    /\ jobsid' = jobsid + 1
    /\ execs' = execs \cup {NewExec(jobsid, "submit")}
    /\ nexec' = nexec + 1
    /\ Reply(p, Response(OK, "job", jobsid, "Queued"))
    /\ UNCHANGED <<userStore, contests, contestsid, loc, hist>>

post_job(p) ==
    \/ \E r \in Request : pj_check(p, r)
    \/ pj_contest_exists(p)
    \/ pj_get_contest(p)
    \/ pj_limit(p)
    \/ pj_start(p)

\* ---------------------------------------------------------------- parsing
IsDigit(b) == b >= 48 /\ b <= 57

\* The decimal value of the digits s[i], .., s[i + n - 1].
RECURSIVE DigitsValue(_, _, _)
DigitsValue(s, i, n) ==
    IF n = 0 THEN 0 ELSE 10 * DigitsValue(s, i, n - 1) + (s[i + n - 1] - 48)

RECURSIVE StripZeros(_)
StripZeros(s) == IF Len(s) > 1 /\ s[1] = 48 THEN StripZeros(Tail(s)) ELSE s

\* "4294967295", the digits of u32::MAX.
U32MaxDigits == <<52, 50, 57, 52, 57, 54, 55, 50, 57, 53>>

\* The digit string d (no leading zero) is at most u32::MAX.
FitsU32(d) == Len(d) < 10 \/ (Len(d) = 10 /\ ~StrLess(U32MaxDigits, d))

\* handler/jobs.rs:189, 245  path.parse::<u32>(): {} for Err, {n} for Ok(n);
\* an empty string, a non-digit or a value above u32::MAX is an Err.  (The
\* inputs of the model that parse are below 2^31.)
ParseU32(s) ==
    LET d == IF Len(s) > 0 /\ s[1] = 43 THEN Tail(s) ELSE s IN
    IF /\ Len(d) > 0
       /\ \A i \in 1 .. Len(d) : IsDigit(d[i])
       /\ FitsU32(StripZeros(d))
    THEN {DigitsValue(d, 1, Len(d))}
    ELSE {}

\* The decimal string of a small number (what a client puts in a path).
Decimal(n) == IF n < 10 THEN <<48 + n>> ELSE Digit2(n)

\* --------------------------------------------------------- job executions
\* The result an execution stores (0 is "no result"): 1 when the execution
\* was spawned by the submission, 2 when it was spawned by a rejudge.
ResultOf(e) == IF e.origin = "submit" THEN 1 ELSE 2

\* runner::run, first part: the spawned execution marks its job Running.
run_start(e) ==
    /\ e \in execs
    /\ e.phase = "spawned"
    /\ e.job \in DOMAIN jobs
    /\ jobs' = [jobs EXCEPT ![e.job].state = "Running"]
    /\ execs' = (execs \ {e}) \cup {[e EXCEPT !.phase = "running"]}
    /\ UNCHANGED <<userStore, contests, contestsid, jobsid, nexec, pc, loc, resp, hist>>

\* runner::run, second part: the execution stores its result and Finished;
\* nothing tells it that the job was reset in between.
run_finish(e) ==
    /\ e \in execs
    /\ e.phase = "running"
    /\ jobs' = [jobs EXCEPT ![e.job].state = "Finished", ![e.job].result = ResultOf(e)]
    /\ execs' = execs \ {e}
    /\ UNCHANGED <<userStore, contests, contestsid, jobsid, nexec, pc, loc, resp, hist>>

run(e) == run_start(e) \/ run_finish(e)

\* handler/jobs.rs:183-196  GET /jobs/{jobid}: what a read of the job shows.
get_job_by_id(path) ==
    IF ParseU32(path) = {} THEN Response(NOT_FOUND, "Job not found.", 0, "none")
    ELSE LET id == CHOOSE n \in ParseU32(path) : TRUE IN
         IF id \notin DOMAIN jobs THEN Response(NOT_FOUND, "Job not found.", id, "none")
         ELSE [kind |-> OK, msg |-> "job", id |-> id, name |-> "none",
               state |-> jobs[id].state, result |-> jobs[id].result]

\* ---------------------------------------------------------------- rejudge
\* A guard that lets the id of the next job through.
rejudge_refused_off_by_one(job_id) == job_id > jobsid

\* handler/jobs.rs:251  if job_id >= ids.lock().await.jobsid
rejudge_refused(job_id) == job_id >= jobsid

\* handler/jobs.rs:244-253
rj_guard(p, path) ==
    /\ pc[p] = "idle"
    /\ nexec - jobsid < MaxRejudges
    /\ IF ParseU32(path) = {}
       THEN /\ Reply(p, Response(NOT_FOUND, "Job not found.", 0, "none"))
            /\ loc' = [loc EXCEPT ![p] = [path |-> path, jid |-> 0]]
       ELSE LET job_id == CHOOSE n \in ParseU32(path) : TRUE IN
            /\ loc' = [loc EXCEPT ![p] = [path |-> path, jid |-> job_id]]
            /\ IF rejudge_refused(job_id)
               THEN Reply(p, Response(NOT_FOUND, "Job not found.", job_id, "none"))
               ELSE /\ pc' = [pc EXCEPT ![p] = "rj_reset"]
                    /\ UNCHANGED resp
    /\ UNCHANGED <<store, hist>>

\* handler/jobs.rs:254-259  runner::reset_job: the result is cleared and the
\* state set to Queued; a job that is not stored is answered NotFound.
rj_reset(p) ==
    /\ pc[p] = "rj_reset"
    /\ IF loc[p].jid \in DOMAIN jobs
       THEN /\ jobs' = [jobs EXCEPT ![loc[p].jid].state = "Queued",
                                    ![loc[p].jid].result = 0]
            /\ pc' = [pc EXCEPT ![p] = "rj_get"]
            /\ UNCHANGED resp
       ELSE /\ Reply(p, Response(NOT_FOUND, "Job not found.", loc[p].jid, "none"))
            /\ UNCHANGED jobs
    /\ UNCHANGED <<userStore, contests, contestsid, jobsid, execs, nexec, loc, hist>>

\* handler/jobs.rs:260-275  runner::get_a_job gives the snapshot that is the
\* response, and runner::run is spawned for the job, nothing more.
rj_get(p) ==
    /\ pc[p] = "rj_get"
    /\ Reply(p, Response(OK, "job", loc[p].jid, jobs[loc[p].jid].state))
    /\ execs' = execs \cup {NewExec(loc[p].jid, "rejudge")}
    /\ nexec' = nexec + 1
    /\ UNCHANGED <<userStore, contests, contestsid, jobs, jobsid, loc, hist>>

\* The paths requests carry: "0", "1", .., then "x" and "4294967296".
Paths ==
    {Decimal(n) : n \in 0 .. MaxJobs}
    \cup {<<120>>, <<52, 50, 57, 52, 57, 54, 55, 50, 57, 54>>}

rejudge_job_by_id(p) ==
    \/ \E path \in Paths : rj_guard(p, path)
    \/ rj_reset(p)
    \/ rj_get(p)

\* ---------------------------------------------------------------- GET /jobs
\* The number of digits, at most max, that s has from position i on
\* (chrono's scan::number takes as many as there are, up to the width).
ScanDigits(s, i, max) ==
    CHOOSE k \in 0 .. max :
        /\ \A j \in 0 .. k - 1 : i + j <= Len(s) /\ IsDigit(s[i + j])
        /\ (k = max \/ i + k > Len(s) \/ ~IsDigit(s[i + k]))

\* The items of "%Y-%m-%dT%H:%M:%S%.3fZ": numeric fields with their widths
\* (the year is the signed one), the fraction, and the literal bytes.
Lit(b) == [kind |-> "lit", byte |-> b, width |-> 0]
Num(w) == [kind |-> "num", byte |-> 0, width |-> w]
Year == [kind |-> "year", byte |-> 0, width |-> 4]
Nanosecond3 == [kind |-> "frac", byte |-> 0, width |-> 0]

TimeFormat ==
    <<Year, Lit(45), Num(2), Lit(45), Num(2), Lit(84),
      Num(2), Lit(58), Num(2), Lit(58), Num(2), Nanosecond3, Lit(90)>>

ScanFailed == [ok |-> FALSE, vals |-> <<>>]

\* NaiveDateTime::parse_from_str, the scanning part: item k of the format is
\* matched at position i of s, vals are the numbers read so far.  A numeric
\* field takes 1 to 2 digits (the year 1 to 4, or any number after a sign);
\* the fraction is optional and of any length; nothing may follow the last
\* item.
RECURSIVE ScanItems(_, _, _, _)
ScanItems(s, i, k, vals) ==
    IF k > Len(TimeFormat) THEN [ok |-> i = Len(s) + 1, vals |-> vals]
    ELSE LET item == TimeFormat[k] IN
         IF item.kind = "lit"
         THEN IF i <= Len(s) /\ s[i] = item.byte
              THEN ScanItems(s, i + 1, k + 1, vals)
              ELSE ScanFailed
         ELSE IF item.kind = "frac"
         THEN IF i <= Len(s) /\ s[i] = 46
              THEN LET n == ScanDigits(s, i + 1, Len(s)) IN
                   IF n = 0 THEN ScanFailed
                   ELSE ScanItems(s, i + 1 + n, k + 1, vals)
              ELSE ScanItems(s, i, k + 1, vals)
         ELSE IF item.kind = "year" /\ i <= Len(s) /\ s[i] \in {43, 45}
         THEN LET n == ScanDigits(s, i + 1, Len(s))
                  d == StripZeros(SubSeq(s, i + 1, i + n))
              IN  IF n = 0 \/ Len(d) > 6 THEN ScanFailed
                  ELSE LET v == DigitsValue(d, 1, Len(d)) IN
                       ScanItems(s, i + 1 + n, k + 1,
                                 Append(vals, IF s[i] = 45 THEN 0 - v ELSE v))
         ELSE LET n == ScanDigits(s, i, item.width) IN
              IF n = 0 THEN ScanFailed
              ELSE ScanItems(s, i + n, k + 1, Append(vals, DigitsValue(s, i, n)))

IsLeap(y) == y % 4 = 0 /\ (y % 100 # 0 \/ y % 400 = 0)

DaysIn(y, m) ==
    IF m = 2 THEN (IF IsLeap(y) THEN 29 ELSE 28)
    ELSE IF m \in {4, 6, 9, 11} THEN 30 ELSE 31

\* NaiveDateTime::parse_from_str(str, "%Y-%m-%dT%H:%M:%S%.3fZ").is_ok():
\* the string scans and the fields make a date and a time of day (second 60
\* is a leap second).
parse_from_str(s) ==
    LET r == ScanItems(s, 1, 1, <<>>) IN
    /\ r.ok
    /\ r.vals[1] >= 0 - 262144 /\ r.vals[1] <= 262143
    /\ r.vals[2] \in 1 .. 12
    /\ r.vals[3] \in 1 .. DaysIn(r.vals[1], r.vals[2])
    /\ r.vals[4] \in 0 .. 23
    /\ r.vals[5] \in 0 .. 59
    /\ r.vals[6] \in 0 .. 60

\* The UTF-8 bytes of the alchemical character the handler puts for "+".
PlusMark == <<240, 159, 156, 148>>

\* handler/jobs.rs:205  str::replace(.., "+", PlusMark)
RECURSIVE ReplacePlus(_)
ReplacePlus(s) ==
    IF s = <<>> THEN <<>>
    ELSE (IF Head(s) = 43 THEN PlusMark ELSE <<Head(s)>>) \o ReplacePlus(Tail(s))

\* handler/jobs.rs:215  str::replace(language, PlusMark, "+")
RECURSIVE RestorePlus(_)
RestorePlus(s) ==
    IF s = <<>> THEN <<>>
    ELSE IF Len(s) >= 4 /\ SubSeq(s, 1, 4) = PlusMark
         THEN <<43>> \o RestorePlus(SubSeq(s, 5, Len(s)))
         ELSE <<Head(s)>> \o RestorePlus(Tail(s))

\* The parameters of a query, each absent ({}) or present with its text.
Query(user_id, language, from, to) ==
    [user_id |-> user_id, language |-> language, from |-> from, to |-> to]

\* handler/jobs.rs:208  web::Query::<JobsFilter>::from_query: a user_id that
\* is there must be a u32; the other parameters here are strings.
from_query(q) ==
    IF \E s \in q.user_id : ParseU32(s) = {}
    THEN {}
    ELSE {[q EXCEPT !.user_id = UNION {ParseU32(s) : s \in q.user_id}]}

\* The bytes of the language names jobs are stored with.
Utf8(language) ==
    IF language = "Rust" THEN <<82, 117, 115, 116>> ELSE <<67, 111, 98, 111, 108>>

Matches(filter, job) ==
    /\ \A u \in filter.user_id : job.user_id = u
    /\ \A l \in filter.language : Utf8(job.language) = l

\* runner::get_jobs: the ids of the jobs the filter selects among those from
\* id i on, ascending.  The jobs of this model carry no submission time, so
\* the range [from, to] selects nothing out.
RECURSIVE list(_, _)
list(filter, i) ==
    IF i \notin DOMAIN jobs THEN <<>>
    ELSE (IF Matches(filter, jobs[i]) THEN <<i>> ELSE <<>>) \o list(filter, i + 1)

QueryResponse(kind, msg, body) ==
    [kind |-> kind, msg |-> msg, id |-> 0, name |-> "none", body |-> body]

\* What the handler answers to query q without going to the store, or Pass.
filter_rejected(q) ==
    LET reqstr == [f \in DOMAIN q |-> {ReplacePlus(s) : s \in q[f]}] IN
    IF from_query(reqstr) = {}
    THEN QueryResponse(INVALID_ARGUMENT, "Invalid argument.", <<>>)
    ELSE IF \E s \in reqstr.from : ~parse_from_str(s)
    THEN QueryResponse(OK, "jobs", <<>>)
    ELSE IF \E s \in reqstr.to : ~parse_from_str(s)
    THEN QueryResponse(OK, "jobs", <<>>)
    ELSE Pass

\* handler/jobs.rs:198-233  GET /jobs.  loc.read tells whether the handler
\* went to the store (runner::get_jobs), which may fail.
get_jobs(p, q) ==
    /\ pc[p] = "idle"
    /\ IF filter_rejected(q) # Pass
       THEN /\ Reply(p, filter_rejected(q))
            /\ loc' = [loc EXCEPT ![p] = [query |-> q, read |-> FALSE]]
       ELSE LET reqstr == [f \in DOMAIN q |-> {ReplacePlus(s) : s \in q[f]}]
                flt == CHOOSE f \in from_query(reqstr) : TRUE
                filter == [flt EXCEPT !.language = {RestorePlus(l) : l \in @}]
            IN  /\ loc' = [loc EXCEPT ![p] = [query |-> q, read |-> TRUE]]
                /\ \E ok \in BOOLEAN :
                     IF ok
                     THEN Reply(p, QueryResponse(OK, "jobs", list(filter, 0)))
                     ELSE Reply(p, QueryResponse(EXTERNAL, "External", <<>>))
    /\ UNCHANGED <<store, hist>>

\* "not-a-date", and a timestamp without the leading zeros: "2022-1-1T0:0:2Z"
NotADate == <<110, 111, 116, 45, 97, 45, 100, 97, 116, 101>>
ShortTime == <<50, 48, 50, 50, 45, 49, 45, 49, 84, 48, 58, 48, 58, 50, 90>>

\* The queries requests carry: user_id absent, "0" or "x"; language absent,
\* "Rust" or "C++"; from and to absent, well-formed, or not.
Queries ==
    {Query(u, l, f, t) :
        u \in {{}, {<<48>>}, {<<120>>}},
        l \in {{}, {Utf8("Rust")}, {<<67, 43, 43>>}},
        f \in {{}, {FormatTime(1)}, {NotADate}},
        t \in {{}, {FormatTime(2)}, {ShortTime}, {NotADate}}}

\* ---------------------------------------------------------- POST /contests
\* The elements of a Vec, as a set.
Range(v) == {v[i] : i \in 1 .. Len(v)}

\* handler/jobs.rs:33-42  PostContest: id is absent ({}) or present ({n}),
\* problem_ids and user_ids are vectors.
ContestBodies ==
    [id : {{}, {0}, {1}, {2}},
     from : {FormatTime(1)}, to : {FormatTime(2)},
     problem_ids : {<<1>>, <<3>>, <<3, 1>>},
     user_ids : {<<>>, <<0>>, <<0, 2>>, <<2, 0>>},
     submission_limit : {0, 1}]

\* The contest a request body describes, as it is stored.
ContestOfBody(body) ==
    [from |-> body.from, to |-> body.to, problem_ids |-> Range(body.problem_ids),
     user_ids |-> Range(body.user_ids), submission_limit |-> body.submission_limit]

\* handler/jobs.rs:309-314  the first problem of the request that the catalog
\* does not have (0: there is none).
first_unknown_problem(body) ==
    LET bad == {i \in 1 .. Len(body.problem_ids) : body.problem_ids[i] \notin Problems}
    IN  IF bad = {} THEN 0 ELSE CHOOSE i \in bad : \A j \in bad : i <= j

\* handler/jobs.rs:316  users::user_exists called with a user id: there is a
\* row for the user, and a failed prepare answers true (users/mod.rs:70-71).
user_id_exists(ok, id) == IF ok THEN RowsWithId(id) # {} ELSE TRUE

\* An id test that lets contest 0 through.
id_rejected_never(body) == FALSE

\* handler/jobs.rs:321-322  if id == 0 { return INVALID_ARGUMENT }
id_rejected(body) == body.id = {0}

\* handler/jobs.rs:321-329  what follows the validation loops: the id test,
\* then contests::update_contest or contests::create_contest.
ct_dispatch(p, body) ==
    IF id_rejected(body)
    THEN Reply(p, Response(INVALID_ARGUMENT, "Cannot change contest 0.", 0, "none"))
    ELSE /\ pc' = [pc EXCEPT ![p] = "ct_write"]
         /\ UNCHANGED resp

\* handler/jobs.rs:309-314  the problem loop (no store access).
ct_check(p, body) ==
    /\ pc[p] = "idle"
    /\ contestsid <= MaxContests
    /\ loc' = [loc EXCEPT ![p] = [body |-> body, i |-> 1, failed |-> FALSE]]
    /\ IF first_unknown_problem(body) # 0
       THEN Reply(p, Response(NOT_FOUND, "Problem not found",
                              body.problem_ids[first_unknown_problem(body)], "none"))
       ELSE IF body.user_ids = <<>>
       THEN ct_dispatch(p, body)
       ELSE /\ pc' = [pc EXCEPT ![p] = "ct_user"]
            /\ UNCHANGED resp
    /\ UNCHANGED <<store, hist>>

\* handler/jobs.rs:315-320  one turn of the user loop: one user_exists call.
ct_user(p) ==
    /\ pc[p] = "ct_user"
    /\ LET body == loc[p].body
           uid == body.user_ids[loc[p].i]
       IN  \E ok \in BOOLEAN :
             IF ~user_id_exists(ok, uid)
             THEN /\ Reply(p, Response(NOT_FOUND, "User not found", uid, "none"))
                  /\ UNCHANGED loc
             ELSE IF loc[p].i < Len(body.user_ids)
             THEN /\ loc' = [loc EXCEPT ![p].i = @ + 1, ![p].failed = @ \/ ~ok]
                  /\ UNCHANGED <<pc, resp>>
             ELSE /\ loc' = [loc EXCEPT ![p].failed = @ \/ ~ok]
                  /\ ct_dispatch(p, body)
    /\ UNCHANGED <<store, hist>>

\* contests::create_contest: the contest gets the next contest id and is
\* stored; contests::update_contest: the stored contest with the id is
\* replaced, a missing one is answered NotFound.  A failed statement is
\* answered External and stores nothing.
ct_write(p) ==
    /\ pc[p] = "ct_write"
    /\ LET body == loc[p].body IN
       \E ok \in BOOLEAN :
         IF ~ok
         THEN /\ Reply(p, Response(EXTERNAL, "Database Error.", 0, "none"))
              /\ loc' = [loc EXCEPT ![p].failed = TRUE]
              /\ UNCHANGED <<contests, contestsid>>
         ELSE IF body.id = {}
         THEN /\ contests' = contests @@ (contestsid :> ContestOfBody(body))
              /\ contestsid' = contestsid + 1
              /\ Reply(p, Response(OK, "contest", contestsid, "none"))
              /\ UNCHANGED loc
         ELSE LET id == CHOOSE n \in body.id : TRUE IN
              IF id \in DOMAIN contests
              THEN /\ contests' = [contests EXCEPT ![id] = ContestOfBody(body)]
                   /\ Reply(p, Response(OK, "contest", id, "none"))
                   /\ UNCHANGED <<contestsid, loc>>
              ELSE /\ Reply(p, Response(NOT_FOUND, "Contest not found.", id, "none"))
                   /\ UNCHANGED <<contests, contestsid, loc>>
    /\ UNCHANGED <<userStore, jobs, jobsid, execs, nexec, hist>>

post_contest(p) ==
    \/ \E body \in ContestBodies : ct_check(p, body)
    \/ ct_user(p)
    \/ ct_write(p)

\* ------------------------------------------- GET /contests/{id}/ranklist
\* handler/jobs.rs:57-73  the variants of the two enums.
ScoringRule == {"latest", "highest"}
TieBreaker == {"submission_time", "submission_count", "user_id", "none"}

\* handler/jobs.rs:75-79  RankFilter and its Default (the #[default] variants).
RankFilter(scoring_rule, tie_breaker) ==
    [scoring_rule |-> scoring_rule, tie_breaker |-> tie_breaker]

DefaultRankFilter == RankFilter("highest", "none")

\* A deserialization that takes a value that is no variant for an absent one.
from_rank_query_lenient(q) ==
    {[scoring_rule |-> q.scoring_rule \cap ScoringRule,
      tie_breaker |-> q.tie_breaker \cap TieBreaker]}

\* handler/jobs.rs:377  web::Query::<SerdeRankFilter>::from_query: a parameter
\* that is there must be the name of a variant of its enum.
from_rank_query(q) ==
    IF q.scoring_rule \subseteq ScoringRule /\ q.tie_breaker \subseteq TieBreaker
    THEN {q}
    ELSE {}

\* A filter whose tie_breaker is looked at only when scoring_rule is given.
rank_filter_coupled(flt) ==
    IF flt.scoring_rule = {} THEN DefaultRankFilter
    ELSE RankFilter(CHOOSE sr \in flt.scoring_rule : TRUE,
                    IF flt.tie_breaker = {} THEN DefaultRankFilter.tie_breaker
                    ELSE CHOOSE tb \in flt.tie_breaker : TRUE)

\* handler/jobs.rs:376-385  the default filter, overwritten by what is there.
rank_filter(flt) ==
    RankFilter(IF flt.scoring_rule = {} THEN DefaultRankFilter.scoring_rule
               ELSE CHOOSE sr \in flt.scoring_rule : TRUE,
               IF flt.tie_breaker = {} THEN DefaultRankFilter.tie_breaker
               ELSE CHOOSE tb \in flt.tie_breaker : TRUE)

\* The locals of get_ranklist: the request, the filter handed to
\* contests::get_ranklist, and whether that call was made.
RankLoc(path, q, filter, called) ==
    [rank_path |-> path, rank_query |-> q, filter |-> filter, called |-> called]

\* handler/jobs.rs:358-395  GET /contests/{id}/ranklist.  contests::get_ranklist
\* computes the ranklist of a stored contest (or of contest 0) from the jobs;
\* it changes nothing, and a failed statement is answered External.
get_ranklist(p, path, q) ==
    /\ pc[p] = "idle"
    /\ IF ParseU32(path) = {}
       THEN /\ Reply(p, Response(NOT_FOUND, "Contest not found.", 0, "none"))
            /\ loc' = [loc EXCEPT ![p] = RankLoc(path, q, DefaultRankFilter, FALSE)]
       ELSE IF from_rank_query(q) = {}
       THEN /\ Reply(p, Response(INVALID_ARGUMENT, "Invalid argument.", 0, "none"))
            /\ loc' = [loc EXCEPT ![p] = RankLoc(path, q, DefaultRankFilter, FALSE)]
       ELSE LET contest_id == CHOOSE n \in ParseU32(path) : TRUE
                flt == CHOOSE f \in from_rank_query(q) : TRUE
            IN  /\ loc' = [loc EXCEPT ![p] = RankLoc(path, q, rank_filter(flt), TRUE)]
                /\ \E ok \in BOOLEAN :
                     IF ~ok
                     THEN Reply(p, Response(EXTERNAL, "Database Error.", 0, "none"))
                     ELSE IF contest_id # 0 /\ contest_id \notin DOMAIN contests
                     THEN Reply(p, Response(NOT_FOUND, "Contest not found.",
                                            contest_id, "none"))
                     ELSE Reply(p, Response(OK, "ranklist", contest_id, "none"))
    /\ UNCHANGED <<store, hist>>

\* The ranklist requests: paths "0", "1" and "x"; each parameter absent, a
\* variant, or something else.
RankPaths == {Decimal(0), Decimal(1), <<120>>}
RankQueries ==
    [scoring_rule : {{}} \cup {{v} : v \in ScoringRule \cup {"best"}},
     tie_breaker : {{}} \cup {{v} : v \in TieBreaker \cup {"random"}}]

\* ---------------------------------------------------------- initial state
InitProcs ==
    /\ pc = [p \in Procs |-> "idle"]
    /\ loc = [p \in Procs |-> NoLoc]
    /\ resp = [p \in Procs |-> NoResp]
    /\ issued = {}
    /\ burned = {}

InitJobStore ==
    /\ contests = <<>>
    /\ contestsid = 1
    /\ jobs = <<>>
    /\ jobsid = 0
    /\ execs = {}
    /\ nexec = 0

\* The server right after start-up: no user, no contest, no job.
InitUsers ==
    /\ users = {}
    /\ usersid = 0
    /\ InitJobStore
    /\ InitProcs

\* What POST /contests is given for a contest of user 0 on problem 1.
ContestInputs ==
    [from : {FormatTime(1)}, to : {FormatTime(2)}, problem_ids : {{1}},
     user_ids : {{0}}, submission_limit : 0 .. MaxLimit]

\* Users 0 and 1 are registered, and at most one contest (id 1) was created.
InitAdmit ==
    /\ users = {[id |-> 0, name |-> "a"], [id |-> 1, name |-> "b"]}
    /\ usersid = 2
    /\ contests \in {<<>>} \cup {(1 :> c) : c \in ContestInputs}
    /\ contestsid = 1 + Cardinality(DOMAIN contests)
    /\ jobs = <<>>
    /\ jobsid = 0
    /\ execs = {}
    /\ nexec = 0
    /\ InitProcs

Alone(p) == \A q \in Procs \ {p} : pc[q] = "idle"

\* POST /jobs requests handled one after another.
NextAdmit ==
    \E p \in Procs :
        \/ Alone(p) /\ \E r \in Request : pj_check(p, r)
        \/ Alone(p) /\ pj_contest_exists(p)
        \/ Alone(p) /\ pj_get_contest(p)
        \/ Alone(p) /\ pj_limit(p)
        \/ Alone(p) /\ pj_start(p)
        \/ Alone(p) /\ Return(p)

SpecAdmit == InitAdmit /\ [][NextAdmit]_vars

\* In the life-cycle specification submissions are started while
\* jobsid < MaxLiveJobs.
MaxLiveJobs == MaxRejudges + 1

\* The requests of the job life cycle: practice submissions of user 0.
JobRequests ==
    [language : ReqLanguages, user_id : {0}, contest_id : {0}, problem_id : {1}]

\* User 0 is registered; no contest, no job.
InitJobs ==
    /\ users = {[id |-> 0, name |-> "a"]}
    /\ usersid = 1
    /\ InitJobStore
    /\ InitProcs

\* Concurrent submissions and rejudges, and the executions they spawn.
NextJobs ==
    \/ \E p \in Procs :
          \/ \E r \in JobRequests : jobsid < MaxLiveJobs /\ pj_check(p, r)
          \/ pj_contest_exists(p)
          \/ pj_start(p)
          \/ rejudge_job_by_id(p)
          \/ Return(p)
    \/ \E e \in execs : run_start(e)
    \/ \E e \in execs : run_finish(e)

SpecJobs == InitJobs /\ [][NextJobs]_vars

\* Submissions and rejudges handled one after another, while the executions
\* they spawned run in the background.
NextRejudge ==
    \/ \E p \in Procs :
          \/ \E r \in JobRequests : Alone(p) /\ jobsid < MaxLiveJobs /\ pj_check(p, r)
          \/ Alone(p) /\ pj_contest_exists(p)
          \/ Alone(p) /\ pj_start(p)
          \/ \E path \in Paths : Alone(p) /\ rj_guard(p, path)
          \/ Alone(p) /\ rj_reset(p)
          \/ Alone(p) /\ rj_get(p)
          \/ Alone(p) /\ Return(p)
    \/ \E e \in execs : run_start(e)
    \/ \E e \in execs : run_finish(e)

SpecRejudge == InitJobs /\ [][NextRejudge]_vars

\* Submissions and queries handled one after another, with the executions
\* running in the background.
NextQuery ==
    \/ \E p \in Procs :
          \/ \E r \in JobRequests : Alone(p) /\ jobsid < MaxLiveJobs /\ pj_check(p, r)
          \/ Alone(p) /\ pj_contest_exists(p)
          \/ Alone(p) /\ pj_start(p)
          \/ \E q \in Queries : Alone(p) /\ get_jobs(p, q)
          \/ Alone(p) /\ Return(p)
    \/ \E e \in execs : run_start(e)
    \/ \E e \in execs : run_finish(e)

SpecQuery == InitJobs /\ [][NextQuery]_vars

\* Concurrent POST /users requests.
NextUsers == \E p \in Procs : post_user(p) \/ Return(p)

SpecUsers == InitUsers /\ [][NextUsers]_vars

\* POST /users requests handled one after another.
NextRename ==
    \E p \in Procs :
        \/ \E name \in Names : Alone(p) /\ cu_read(p, name)
        \/ Alone(p) /\ cu_incr(p)
        \/ Alone(p) /\ cu_exists(p)
        \/ Alone(p) /\ cu_insert(p)
        \/ \E id \in 0 .. MaxUsers - 1, name \in Names : Alone(p) /\ uu_get(p, id, name)
        \/ Alone(p) /\ uu_exists(p)
        \/ Alone(p) /\ uu_update(p)
        \/ Alone(p) /\ Return(p)

SpecRename == InitUsers /\ [][NextRename]_vars

\* POST /contests requests handled one after another; user 0 is registered.
NextContests ==
    \E p \in Procs :
        \/ \E body \in ContestBodies : Alone(p) /\ ct_check(p, body)
        \/ Alone(p) /\ ct_user(p)
        \/ Alone(p) /\ ct_write(p)
        \/ Alone(p) /\ Return(p)

SpecContests == InitJobs /\ [][NextContests]_vars

\* Ranklist requests, one after another, on a store with or without a
\* contest (the handler is a single step: it changes nothing).
NextRank ==
    \E p \in Procs :
        \/ \E path \in RankPaths, q \in RankQueries : Alone(p) /\ get_ranklist(p, path, q)
        \/ Alone(p) /\ Return(p)

SpecRank == InitAdmit /\ [][NextRank]_vars

\* The submissions of user 0 for problem 1 in contest 1.
ContestRequests ==
    [language : {"Rust"}, user_id : {0}, contest_id : {1}, problem_id : {1}]

\* Concurrent POST /jobs requests for one (user, problem, contest) triple.
NextRace ==
    \E p \in Procs :
        \/ \E r \in ContestRequests : pj_check(p, r)
        \/ pj_contest_exists(p)
        \/ pj_get_contest(p)
        \/ pj_limit(p)
        \/ pj_start(p)
        \/ Return(p)

SpecRace == InitAdmit /\ [][NextRace]_vars

\* Concurrent create_user calls only.
NextCreateUser == \E p \in Procs : create_user(p) \/ Return(p)

SpecCreateUser == InitUsers /\ [][NextCreateUser]_vars

\* ------------------------------------------------------------------ claims
\* Task p reads its user id in this step (users/mod.rs:99).
ReadsUserId(p) == pc[p] = "idle" /\ pc'[p] = "cu_incr"

\* C1 (as claimed): under every interleaving of create_user calls the id a
\* call reads is strictly greater than every id read before it, so no two
\* calls are issued the same id.
C1_IdsDistinctIncreasing ==
    [][\A p \in Procs : ReadsUserId(p) => \A i \in issued : loc'[p].id > i]_vars

\* C7: the user id counter never decreases, and a create_user call that starts
\* after a failed call has returned never reads an id a failed call reserved.
C7_FailedIdConsumed ==
    [][/\ usersid' >= usersid
       /\ \A p \in Procs : ReadsUserId(p) => loc'[p].id \notin burned]_vars

\* C7 witness: a call failed with id k, and a user created afterwards holds a
\* larger id while no user holds k (the gap the failed call left).
C7_Witness ==
    \E k \in burned : /\ \A u \in users : u.id # k
                      /\ \E u \in users : u.id > k

\* Task p is handling, or has just answered, a POST /jobs request none of
\* whose store statements failed.
InPostJob(p) ==
    /\ pc[p] \in {"pj_contest_exists", "pj_get_contest", "pj_limit", "pj_start", "done"}
    /\ "req" \in DOMAIN loc[p]
    /\ ~loc[p].failed

Rejected(p) == pc[p] = "done" /\ resp[p].kind # OK
Admitted(p) == pc[p] = "pj_start" \/ (pc[p] = "done" /\ resp[p].kind = OK)

UserKnown(id) == \E u \in users : u.id = id
ContestKnown(r) == r.contest_id # 0 /\ r.contest_id \in DOMAIN contests
ContestOf(r) == IF ContestKnown(r) THEN contests[r.contest_id] ELSE NoContest

\* The eight admission checks in the order of the specification, each with
\* the error kind and the messages its failure is answered with; t is the
\* current time.
AdmissionChecks(r, t) ==
    LET c == ContestOf(r)
        limited == ContestKnown(r) /\ c.submission_limit # 0
    IN  << [fails |-> r.language \notin Languages, kind |-> NOT_FOUND,
            msgs |-> {"Language no found."}],
           [fails |-> r.problem_id \notin Problems, kind |-> NOT_FOUND,
            msgs |-> {"Problem not found."}],
           [fails |-> ~UserKnown(r.user_id), kind |-> NOT_FOUND,
            msgs |-> {"User not found."}],
           [fails |-> r.contest_id # 0 /\ ~ContestKnown(r), kind |-> NOT_FOUND,
            msgs |-> {"Contest not found."}],
           [fails |-> ContestKnown(r) /\ r.user_id \notin c.user_ids,
            kind |-> INVALID_ARGUMENT, msgs |-> {"User is not registered in contest."}],
           [fails |-> ContestKnown(r) /\ r.problem_id \notin c.problem_ids,
            kind |-> INVALID_ARGUMENT, msgs |-> {"Problem is not in contest."}],
           [fails |-> limited /\ submission_count(r) >= c.submission_limit,
            kind |-> RATE_LIMIT, msgs |-> {"Too many submissions."}],
           [fails |-> limited /\ (StrLess(FormatTime(t), c.from) \/ StrLess(c.to, FormatTime(t))),
            kind |-> INVALID_ARGUMENT,
            msgs |-> {"The contest has not started yet.", "The contest has already finished."}] >>

\* The checks of cs that fail, and the first of them (0: none fails).
Failing(cs) == {i \in 1 .. 8 : cs[i].fails}
FirstFailing(cs) ==
    IF Failing(cs) = {} THEN 0
    ELSE CHOOSE i \in Failing(cs) : \A j \in Failing(cs) : i <= j

\* C2: a rejected POST /jobs request is answered with the error of the first
\* failing check in the order language, problem, user, contest existence,
\* user membership, problem membership, submission limit, time window; and a
\* request is admitted only if no check fails.
C2_FirstFailingCheck ==
    \A p \in Procs : InPostJob(p) =>
        LET cs == AdmissionChecks(loc[p].req, loc[p].time)
            first == FirstFailing(cs)
        IN  /\ Rejected(p) =>
                /\ first # 0
                /\ resp[p].kind = cs[first].kind
                /\ resp[p].msg \in cs[first].msgs
            /\ pc[p] = "pj_start" => first = 0

\* C2 witness: a request naming an unknown language and a nonexistent user
\* has been answered with the language error.
C2_Witness ==
    \E p \in Procs :
        /\ InPostJob(p) /\ Rejected(p)
        /\ loc[p].req.language \notin Languages
        /\ ~UserKnown(loc[p].req.user_id)
        /\ resp[p].msg = "Language no found."

Triples == {<<j.user_id, j.problem_id, j.contest_id>> : j \in {jobs[i] : i \in DOMAIN jobs}}
CountOf(tr) ==
    Cardinality({i \in DOMAIN jobs :
        <<jobs[i].user_id, jobs[i].problem_id, jobs[i].contest_id>> = tr})

\* C3: with requests handled one after another, a contest with submission
\* limit L # 0 never holds more than L submissions of one (user, problem,
\* contest) triple; a request that passes checks 1-6 is answered RateLimit
\* exactly when L submissions of its triple are stored, and is admitted when
\* fewer are (and the contest is open).
C3_LimitAdmitsFirstL ==
    /\ \A tr \in Triples :
          (tr[3] \in DOMAIN contests /\ contests[tr[3]].submission_limit # 0)
              => CountOf(tr) <= contests[tr[3]].submission_limit
    /\ \A p \in Procs : InPostJob(p) =>
          LET r == loc[p].req
              cs == AdmissionChecks(r, loc[p].time)
              L == ContestOf(r).submission_limit
          IN  ((\A i \in 1 .. 6 : ~cs[i].fails) /\ ContestKnown(r) /\ L # 0) =>
                /\ Rejected(p) =>
                      (resp[p].kind = RATE_LIMIT <=> submission_count(r) >= L)
                /\ (Rejected(p) /\ submission_count(r) < L) => cs[8].fails
                /\ pc[p] = "pj_start" => submission_count(r) < L

\* C3 witness: with limit 2, two submissions of the triple are stored and a
\* third request has been answered RateLimit.
C3_Witness ==
    \E p \in Procs :
        /\ InPostJob(p) /\ Rejected(p)
        /\ resp[p].kind = RATE_LIMIT
        /\ ContestOf(loc[p].req).submission_limit = 2
        /\ submission_count(loc[p].req) = 2

\* C4: a request with contest_id = 0 whose language and problem are in the
\* catalogs and whose user exists is never rejected and never reaches a
\* contest check, whatever contest is stored.
C4_PracticeAdmitted ==
    \A p \in Procs : InPostJob(p) =>
        LET r == loc[p].req IN
        (r.contest_id = 0 /\ CatalogOk(r) /\ UserKnown(r.user_id)) =>
            /\ ~Rejected(p)
            /\ pc[p] \notin {"pj_get_contest", "pj_limit"}

\* C4 witness: a practice submission is admitted while a contest with a
\* submission limit is stored and more practice submissions of the same user
\* and problem exist than that limit allows.
C4_Witness ==
    \E p \in Procs :
        /\ InPostJob(p) /\ pc[p] = "done" /\ resp[p].kind = OK
        /\ loc[p].req.contest_id = 0
        /\ 1 \in DOMAIN contests /\ contests[1].submission_limit = 1
        /\ submission_count(loc[p].req) > 1

\* C8: a member's submission of a contest problem to a contest whose
\* submission_limit is 0 is never rejected, whatever the clock reads.
C8_UnlimitedSkipsWindow ==
    \A p \in Procs : InPostJob(p) =>
        LET r == loc[p].req
            c == ContestOf(r)
        IN  (/\ ContestKnown(r) /\ c.submission_limit = 0
             /\ CatalogOk(r) /\ UserKnown(r.user_id)
             /\ r.user_id \in c.user_ids /\ r.problem_id \in c.problem_ids)
            => ~Rejected(p)

\* C8 witness: such a submission is admitted although the current time is
\* before contest.from, and another although it is after contest.to.
C8_Witness ==
    \E p \in Procs :
        /\ InPostJob(p) /\ pc[p] = "done" /\ resp[p].kind = OK
        /\ ContestKnown(loc[p].req)
        /\ ContestOf(loc[p].req).submission_limit = 0
        /\ StrLess(ContestOf(loc[p].req).to, FormatTime(loc[p].time))
        /\ \E i \in DOMAIN jobs : /\ jobs[i].contest_id = loc[p].req.contest_id
                                   /\ i # resp[p].id

\* C10 (as claimed): in every reachable state no two users have the same name.
C10_UniqueNames ==
    \A u, v \in users : u.name = v.name => u = v

\* ------------------------------------------------------- rejudge claims
\* A rejudge of job j was accepted and the execution it dispatches has not
\* completed: the handler is between the reset and the dispatch, or the
\* dispatched execution is still there.
RejudgePending(j) ==
    \/ \E p \in Procs : pc[p] = "rj_get" /\ loc[p].jid = j
    \/ \E e \in execs : e.job = j /\ e.origin = "rejudge"

\* C5: while an accepted rejudge of a job is pending, a read of the job shows
\* Queued or Running and no result, whatever the executions dispatched
\* earlier for the job do.
C5_ReadsAfterRejudge ==
    \A j \in DOMAIN jobs :
        RejudgePending(j) =>
            LET r == get_job_by_id(Decimal(j)) IN
            /\ r.kind = OK
            /\ r.state \in {"Queued", "Running"}
            /\ r.result = 0

\* The job ids issued so far.
IssuedJobs == DOMAIN jobs

RejudgeAccepted(p) == pc[p] \in {"rj_reset", "rj_get"}

\* C6 as stated: a rejudge is accepted only for an id strictly below the
\* highest job id issued so far.
C6_AcceptsBelowHighest ==
    \A p \in Procs :
        RejudgeAccepted(p) => \E i \in IssuedJobs : loc[p].jid < i

\* The step in which task p takes a PUT /jobs/{id} request.
RejudgeArrives(p) == pc[p] = "idle" /\ "jid" \in DOMAIN loc'[p]

\* The path names an id that is at most the highest job id issued so far.
NamesIssued(path) ==
    /\ ParseU32(path) # {}
    /\ \E n \in ParseU32(path) : \E i \in IssuedJobs : n <= i

\* C6: a rejudge is accepted exactly for the ids up to and including the
\* highest job id issued so far (the ids below the counter of the next id);
\* any other request is answered NotFound, changes no job record and
\* dispatches no execution.
C6_AcceptsIssuedOnly ==
    [][\A p \in Procs :
          RejudgeArrives(p) =>
              IF NamesIssued(loc'[p].path)
              THEN pc'[p] = "rj_reset"
              ELSE /\ pc'[p] = "done"
                   /\ resp'[p].kind = NOT_FOUND
                   /\ jobs' = jobs
                   /\ execs' = execs]_vars

\* A rejudge of the job issued last was accepted and has reset it.
C6_Witness ==
    \E p \in Procs :
        /\ pc[p] = "rj_get"
        /\ jobsid > 0
        /\ loc[p].jid = jobsid - 1
        /\ jobs[loc[p].jid].state = "Queued"



\* -------------------------------------------------------- GET /jobs claim
\* The fixed-width timestamp YYYY-MM-DDTHH:MM:SS.sssZ: 24 bytes, digits in
\* the fields, the separators in their places, and a real date and time.
FixedWidthTimestamp(s) ==
    /\ Len(s) = 24
    /\ \A i \in 1 .. 24 :
          IF i \in {5, 8} THEN s[i] = 45
          ELSE IF i = 11 THEN s[i] = 84
          ELSE IF i \in {14, 17} THEN s[i] = 58
          ELSE IF i = 20 THEN s[i] = 46
          ELSE IF i = 24 THEN s[i] = 90
          ELSE IsDigit(s[i])
    /\ parse_from_str(s)

\* Task p has answered a GET /jobs request one of whose bounds is not a
\* fixed-width timestamp.
AnsweredBadBound(p) ==
    /\ pc[p] = "done"
    /\ "query" \in DOMAIN loc[p]
    /\ \E s \in loc[p].query.from \cup loc[p].query.to : ~FixedWidthTimestamp(s)

\* C9: a GET /jobs request with a from or to that is not a fixed-width
\* timestamp is answered with success and the empty sequence, whatever its
\* other parameters, and the store is not read.
C9_BadBoundNeverFails ==
    \A p \in Procs :
        AnsweredBadBound(p) =>
            /\ resp[p].kind = OK
            /\ resp[p].body = <<>>
            /\ ~loc[p].read



\* ------------------------------------------------------ update_user claim
\* The users table and the id counter are as they were.
UsersUntouched == users' = users /\ usersid' = usersid

\* C11: with POST /users requests handled one after another and no store
\* statement failing, update_user(id, name) answers NotFound only for an id no
\* user has, succeeds at once only when the user already has the name, goes on
\* to the name lookup only for an existing user with another name, answers
\* InvalidArgument only when another user holds the name, and otherwise
\* renames that user and no other; every step but the rename leaves the
\* users and the id counter as they were.
C11_UpdateUser ==
    [][\A p \in Procs :
        /\ (pc[p] = "idle" /\ pc'[p] = "done" /\ ~loc'[p].failed) =>
              /\ resp'[p].kind \in {NOT_FOUND, OK}
              /\ resp'[p].kind = NOT_FOUND => RowsWithId(resp'[p].id) = {}
              /\ resp'[p].kind = OK =>
                    [id |-> resp'[p].id, name |-> resp'[p].name] \in users
              /\ UsersUntouched
        /\ (pc[p] = "idle" /\ pc'[p] = "uu_exists") =>
              /\ RowsWithId(loc'[p].id) # {}
              /\ \A u \in RowsWithId(loc'[p].id) : u.name # loc'[p].name
              /\ UsersUntouched
        /\ (pc[p] = "uu_exists" /\ pc'[p] = "done" /\ ~loc'[p].failed) =>
              /\ resp'[p].kind = INVALID_ARGUMENT
              /\ \E u \in users : u.name = loc[p].name /\ u.id # loc[p].id
              /\ UsersUntouched
        /\ (pc[p] = "uu_exists" /\ pc'[p] = "uu_update") =>
              /\ \A u \in users : u.name # loc[p].name
              /\ UsersUntouched
        /\ (pc[p] = "uu_update" /\ pc'[p] = "done" /\ ~loc'[p].failed) =>
              /\ resp'[p].kind = OK
              /\ resp'[p].id = loc[p].id /\ resp'[p].name = loc[p].name
              /\ users' = {u \in users : u.id # loc[p].id}
                              \cup {[id |-> loc[p].id, name |-> loc[p].name]}
              /\ usersid' = usersid]_vars

\* C11 witness: no create_user call was ever refused, two users are stored,
\* and a request was answered InvalidArgument without a failed statement: it
\* was an update_user to the name the other user holds.
C11_Witness ==
    \E p \in Procs :
        /\ pc[p] = "done"
        /\ resp[p].kind = INVALID_ARGUMENT
        /\ ~loc[p].failed
        /\ burned = {}
        /\ Cardinality(users) = 2



\* ----------------------------------------------------- POST /contests claims
\* Task p is handling, or has answered, a POST /contests request.
InPostContest(p) == "body" \in DOMAIN loc[p]

\* C12: no contest with id 0 is ever stored, and a POST /contests request
\* carrying id = 0 never reaches contests::update_contest or
\* contests::create_contest: it is answered with an error (NotFound from the
\* validation, InvalidArgument from the id test) and the step that answers
\* it leaves the contests and the contest id counter as they were.
C12_ContestZeroImmutable ==
    [][/\ 0 \notin DOMAIN contests'
       /\ \A p \in Procs :
            ("body" \in DOMAIN loc'[p] /\ loc'[p].body.id = {0}) =>
                /\ pc'[p] \in {"ct_user", "done"}
                /\ pc'[p] = "done" =>
                      resp'[p].kind \in {NOT_FOUND, INVALID_ARGUMENT}
                /\ contests' = contests /\ contestsid' = contestsid]_vars

\* C12 witness: contests are stored, and a request with id = 0 whose
\* problems and users are all known was answered InvalidArgument.
C12_Witness ==
    \E p \in Procs :
        /\ InPostContest(p) /\ pc[p] = "done"
        /\ loc[p].body.id = {0}
        /\ first_unknown_problem(loc[p].body) = 0
        /\ loc[p].body.user_ids = <<0>>
        /\ resp[p].kind = INVALID_ARGUMENT
        /\ DOMAIN contests # {}



\* ------------------------------------------------------ time window claim
\* The time the clock read for task p's request is outside the window of
\* contest c, by comparison of the timestamps as strings.
OutsideWindow(p, c) ==
    \/ StrLess(FormatTime(loc[p].time), c.from)
    \/ StrLess(c.to, FormatTime(loc[p].time))

\* Task p's request is for a stored contest with a nonzero submission_limit
\* and passes checks 1-7, and the handler is past the window check.
PastWindowCheck(p) ==
    /\ InPostJob(p)
    /\ Rejected(p) \/ pc[p] = "pj_start"
    /\ ContestKnown(loc[p].req)
    /\ ContestOf(loc[p].req).submission_limit # 0
    /\ \A i \in 1 .. 7 : ~AdmissionChecks(loc[p].req, loc[p].time)[i].fails

\* C13: such a request is rejected exactly when the current timestamp is
\* lexically smaller than contest.from or greater than contest.to, and then
\* with InvalidArgument; at exactly from or exactly to it is admitted.
C13_WindowInclusive ==
    \A p \in Procs : PastWindowCheck(p) =>
        LET c == ContestOf(loc[p].req) IN
        /\ Rejected(p) <=> OutsideWindow(p, c)
        /\ Rejected(p) => resp[p].kind = INVALID_ARGUMENT
        /\ FormatTime(loc[p].time) \in {c.from, c.to} => pc[p] = "pj_start"

\* C13 witness: a submission made at exactly contest.to is admitted.
C13_Witness ==
    \E p \in Procs :
        /\ PastWindowCheck(p)
        /\ pc[p] = "pj_start"
        /\ FormatTime(loc[p].time) = ContestOf(loc[p].req).to



\* --------------------------------------------------------- ranklist claims
\* Task p has answered a ranklist request whose path is a contest id.
AnsweredRanklist(p) ==
    /\ pc[p] = "done"
    /\ "rank_query" \in DOMAIN loc[p]
    /\ ParseU32(loc[p].rank_path) # {}

\* The parameters of q that are there are variants of their enums.
ValidRankQuery(q) ==
    q.scoring_rule \subseteq ScoringRule /\ q.tie_breaker \subseteq TieBreaker

\* C14: a ranklist request whose parameters are absent or valid is computed
\* with scoring_rule = highest when it omits scoring_rule and with the given
\* one otherwise, and with tie_breaker = none when it omits tie_breaker and
\* with the given one otherwise, each whatever the other parameter is.
C14_RankDefaults ==
    \A p \in Procs :
        (AnsweredRanklist(p) /\ ValidRankQuery(loc[p].rank_query)) =>
            LET q == loc[p].rank_query IN
            /\ loc[p].called
            /\ q.scoring_rule = {} => loc[p].filter.scoring_rule = "highest"
            /\ q.tie_breaker = {} => loc[p].filter.tie_breaker = "none"
            /\ \A sr \in q.scoring_rule : loc[p].filter.scoring_rule = sr
            /\ \A tb \in q.tie_breaker : loc[p].filter.tie_breaker = tb

\* C14 witness: a request that gives tie_breaker = user_id and no
\* scoring_rule was computed.
C14_Witness ==
    \E p \in Procs :
        /\ AnsweredRanklist(p)
        /\ loc[p].rank_query = [scoring_rule |-> {}, tie_breaker |-> {"user_id"}]
        /\ resp[p].kind = OK

\* C20 (as claimed): a ranklist request with a scoring_rule or tie_breaker
\* that is none of the options is not rejected: the ranklist is computed,
\* with the default in the place of the unknown value.
C20_UnknownDefaulted ==
    \A p \in Procs :
        (AnsweredRanklist(p) /\ ~ValidRankQuery(loc[p].rank_query)) =>
            /\ loc[p].called
            /\ resp[p].kind # INVALID_ARGUMENT
            /\ loc[p].rank_query.scoring_rule \cap ScoringRule = {}
                  => loc[p].filter.scoring_rule = "highest"
            /\ loc[p].rank_query.tie_breaker \cap TieBreaker = {}
                  => loc[p].filter.tie_breaker = "none"

\* C20: a ranklist request (for a path that is a contest id) with a
\* scoring_rule or tie_breaker that is none of the options is rejected with
\* InvalidArgument, and no ranklist is computed.
C20_UnknownRejected ==
    \A p \in Procs :
        (AnsweredRanklist(p) /\ ~ValidRankQuery(loc[p].rank_query)) =>
            /\ resp[p].kind = INVALID_ARGUMENT
            /\ ~loc[p].called

\* C20 witness: a request with a valid scoring_rule and the tie_breaker
\* "random" was answered InvalidArgument.
C20_Witness ==
    \E p \in Procs :
        /\ AnsweredRanklist(p)
        /\ loc[p].rank_query = [scoring_rule |-> {"latest"}, tie_breaker |-> {"random"}]
        /\ resp[p].kind = INVALID_ARGUMENT



\* ------------------------------------------------- concurrent admission
\* C15 (as claimed): under every interleaving of POST /jobs requests, the
\* submissions stored for a (user, problem, contest) triple of a contest with
\* a nonzero submission_limit never outnumber the limit.
C15_LimitNeverExceeded ==
    \A i \in DOMAIN jobs :
        LET j == jobs[i] IN
        (j.contest_id \in DOMAIN contests
            /\ contests[j.contest_id].submission_limit # 0)
        => submission_count(j) <= contests[j.contest_id].submission_limit



\* ------------------------------------------------------ job state changes
\* The changes of a job's stored state the life cycle allows: Queued to
\* Running, Running to Finished, and Running or Finished to Queued.
AllowedStateChanges ==
    {<<"Queued", "Running">>, <<"Running", "Finished">>,
     <<"Running", "Queued">>, <<"Finished", "Queued">>}

\* C16 (as claimed, its safety part): in every execution, concurrent
\* rejudges and executions of the same job included, a job's stored state
\* changes only along the allowed changes; in particular never from Queued
\* directly to Finished.
C16_StateTransitions ==
    [][\A j \in DOMAIN jobs :
          jobs'[j].state # jobs[j].state =>
              <<jobs[j].state, jobs'[j].state>> \in AllowedStateChanges]_vars



\* ------------------------------------------------ admission frame claim
\* Task p takes a step of post_job in which it answers with an error, or
\* which is a check (any step but the call of runner::start).
ChecksOrRejects(p) ==
    /\ pc'[p] # pc[p]
    /\ "req" \in DOMAIN loc'[p]
    /\ pc[p] # "pj_start"

\* C17: with requests handled one after another, every step of post_job
\* before runner::start, the step that rejects the request included, leaves
\* the users, the contests, the jobs, the executions and all id counters as
\* they were; and a rejected request never went through runner::start.
C17_RejectedNoEffect ==
    [][\A p \in Procs :
        /\ ChecksOrRejects(p) => UNCHANGED store
        /\ ("req" \in DOMAIN loc'[p] /\ pc'[p] = "done" /\ pc[p] = "pj_start")
              => resp'[p].kind = OK]_vars

\* C17 witness: jobs are stored, and a request that passed the first six
\* checks was rejected by the submission limit.
C17_Witness ==
    \E p \in Procs :
        /\ InPostJob(p) /\ Rejected(p)
        /\ resp[p].kind = RATE_LIMIT
        /\ jobsid > 0



\* ------------------------------------------------- store failure claim
\* C18 (as claimed): a POST /users request during which a store statement
\* failed (in create_user, update_user or the name lookup) is answered with
\* an External error.
C18_StoreFailureExternal ==
    \A p \in Procs :
        (pc[p] = "done" /\ "name" \in DOMAIN loc[p] /\ loc[p].failed)
            => resp[p].kind = EXTERNAL



\* --------------------------------------------------- contest references
\* C19 (as claimed): in every reachable state, the problem_ids of every
\* stored contest are all in the problem catalog and its user_ids are all
\* ids of existing users.
C19_ContestReferencesValid ==
    \A id \in DOMAIN contests :
        /\ contests[id].problem_ids \subseteq Problems
        /\ \A uid \in contests[id].user_ids : UserKnown(uid)


====
